---- MODULE Spec2Model ----
(***************************************************************************)
(* Vacancy scraper: the store (vacancies, companies), the company          *)
(* resolver, the fetch-retry controller, the bounded scan (run), the       *)
(* unbounded scan loops of the bot and two processes that share the        *)
(* database, modelled from                                                 *)
(*   parser/Vacancy_Parser/Vacancy_Parser.py   (variant "VP")              *)
(*   parser/Crewing_Bot_2.py                   (variant "CB2")             *)
(*   parser/Vacancy_Parser/vacancy_bot_1.py, vacancy_bot.py (scan loops)   *)
(*                                                                         *)
(* Text values are sequences of one-character strings, so that the string  *)
(* functions of Python and of SQLite are computed and not assumed.         *)
(***************************************************************************)
EXTENDS Integers, Sequences, FiniteSets, TLC

VARIABLES variant, vacancies, companies, pv, ret, scan, parsing_active, running,
          REQUEST_DELAY, procs

vars == <<variant, vacancies, companies, pv, ret, scan, parsing_active, running,
          REQUEST_DELAY, procs>>

-----------------------------------------------------------------------------
(* Bounds of the model *)

MaxCompanies == 2
MaxPublished == 2
WaitTicks == 2

(* Program constants *)

\* A controller that retries once less
TwoRetries == 3 - 1

MAX_RETRIES == 3
SEED_ID == 313620

\* end_id if end_id else current_id + 100
RUN_SPAN == 100
NOT_FOUND_LIMIT == 5

-----------------------------------------------------------------------------
(* Text: characters, Python str methods, SQLite functions *)

UpperLetters ==
  <<"A","B","C","D","E","F","G","H","I","J","K","L","M",
    "N","O","P","Q","R","S","T","U","V","W","X","Y","Z">>

LowerLetters ==
  <<"a","b","c","d","e","f","g","h","i","j","k","l","m",
    "n","o","p","q","r","s","t","u","v","w","x","y","z">>

\* One cased letter outside ASCII (e.g. Cyrillic), written as a pair of tokens.
NonAsciiUpper == "^Zh"
NonAsciiLower == "^zh"

IndexIn(tbl, c) == CHOOSE i \in 1..Len(tbl) : tbl[i] = c

IsIn(tbl, c) == \E i \in 1..Len(tbl) : tbl[i] = c

\* str.lower() on one character: every cased letter, ASCII or not
PyLowerChar(c) ==
  IF IsIn(UpperLetters, c) THEN LowerLetters[IndexIn(UpperLetters, c)]
  ELSE IF c = NonAsciiUpper THEN NonAsciiLower
  ELSE c

PyUpperChar(c) ==
  IF IsIn(LowerLetters, c) THEN UpperLetters[IndexIn(LowerLetters, c)]
  ELSE IF c = NonAsciiLower THEN NonAsciiUpper
  ELSE c

\* SQLite LOWER() on one character: ASCII letters only
SqlLowerChar(c) ==
  IF IsIn(UpperLetters, c) THEN LowerLetters[IndexIn(UpperLetters, c)]
  ELSE c

PyLower(s) == [i \in 1..Len(s) |-> PyLowerChar(s[i])]

SqlLower(s) == [i \in 1..Len(s) |-> SqlLowerChar(s[i])]

\* A capitalize that upper-cases the first character and leaves the rest as it is
CapitalizeFirstOnly(s) ==
  [i \in 1..Len(s) |-> IF i = 1 THEN PyUpperChar(s[i]) ELSE s[i]]

\* str.capitalize(): first character upper-cased, the rest lower-cased
Capitalize(s) ==
  [i \in 1..Len(s) |-> IF i = 1 THEN PyUpperChar(s[i]) ELSE PyLowerChar(s[i])]

IsSpace(c) == c = " "

\* str.strip()
Strip(s) ==
  LET nonsp == {i \in 1..Len(s) : ~IsSpace(s[i])}
  IN  IF nonsp = {} THEN << >>
      ELSE LET lo == CHOOSE i \in nonsp : \A j \in nonsp : i <= j
               hi == CHOOSE i \in nonsp : \A j \in nonsp : i >= j
           IN  SubSeq(s, lo, hi)

RECURSIVE CollapseSpaces(_)
\* " ".join(s.split()) on a stripped string: every run of spaces becomes one
CollapseSpaces(s) ==
  IF Len(s) <= 1 THEN s
  ELSE IF IsSpace(s[1]) /\ IsSpace(s[2]) THEN CollapseSpaces(Tail(s))
  ELSE <<s[1]>> \o CollapseSpaces(Tail(s))

\* " ".join(company_name.strip().split()).lower()
NormalizedName(s) == PyLower(CollapseSpaces(Strip(s)))

StartsWith(s, p) == Len(s) >= Len(p) /\ SubSeq(s, 1, Len(p)) = p

\* plain substring containment (Python "in")
Contains(s, p) ==
  \E k \in 0..(Len(s) - Len(p)) : \A j \in 1..Len(p) : s[k + j] = p[j]

\* SQLite LIKE on one pattern character: "_" matches any character, letters
\* match without regard to ASCII case
LikeChar(pc, tc) == pc = "_" \/ SqlLowerChar(pc) = SqlLowerChar(tc)

\* text LIKE '%' || pat || '%'   (pat holds no '%')
SqlLikeContains(text, pat) ==
  \E k \in 0..(Len(text) - Len(pat)) : \A j \in 1..Len(pat) : LikeChar(pat[j], text[k + j])

-----------------------------------------------------------------------------
(* The store: table vacancies (id -> row) and table companies (row i has id i) *)

\* SQL NULL / Python None in a text column
NULL == <<"NULL">>

\* Python None for a company id (AUTOINCREMENT ids start at 1)
NO_COMPANY == 0

\* dict.get(key)
Get(data, key) == IF key \in DOMAIN data THEN data[key] ELSE NULL

\* truth value of an optional str: None and "" are false
Truthy(v) == v /= NULL /\ v /= << >>

\* Columns of table companies besides id and name
CompanyDetailCols == {"country", "city", "url", "phones", "email", "website", "address"}

CompanyRow(name, details) ==
  [c \in {"name"} \cup CompanyDetailCols |->
     IF c = "name" THEN name ELSE Get(details, c)]

\* Text columns of table vacancies the model keeps: "title", "agency" and
\* "website" stand for the columns save_vacancy writes, "views" for the columns
\* of the table that fetch_vacancy fills and save_vacancy never writes
\* (views, email_subject, experience_type_vessel).
VacancyTextCols == {"title", "agency", "website", "views"}

VP_columns == {"title", "agency", "website"}

CB2_columns == {"title", "agency"}

EmptyRow == [c \in VacancyTextCols \cup {"company_id"} |->
               IF c = "company_id" THEN NO_COMPANY ELSE NULL]

\* The outcome of one call of get_or_create_company: the id returned (None
\* after "except sqlite3.Error"), the table afterwards, and whether the
\* connection raised sqlite3.Error
Resolved(id, cs) == [id |-> id, companies |-> cs, err |-> FALSE]

Failed(cs) == [id |-> NO_COMPANY, companies |-> cs, err |-> TRUE]

\* A row id counted from 0
RowidFromZero(cs) == Len(cs)

\* A row id one past the row inserted
RowidPastTheRow(cs) == Len(cs) + 2

\* cursor.lastrowid after the INSERT (AUTOINCREMENT, no row is ever deleted)
lastrowid(cs) == Len(cs) + 1

\* SELECT id FROM companies WHERE LOWER(name) = ?
ExactMatches(cs, norm) == {i \in 1..Len(cs) : SqlLower(cs[i].name) = norm}

\* SELECT id FROM companies WHERE LOWER(name) LIKE '%' || ? || '%' LIMIT 1
LikeMatches(cs, norm) == {i \in 1..Len(cs) : SqlLikeContains(SqlLower(cs[i].name), norm)}

\* UNIQUE(name, url): a NULL url never conflicts
UniqueViolation(cs, row) ==
  row.url /= NULL /\ \E i \in 1..Len(cs) : cs[i].name = row.name /\ cs[i].url = row.url

\* Vacancy_Parser.py get_or_create_company: the set of possible outcomes
\* (fetchone() of a query without ORDER BY may return any matching row).
\* dbError: the connection raises sqlite3.Error during the call.
get_or_create_company(cs, company_name, dbError) ==
  IF ~Truthy(company_name) THEN {Resolved(NO_COMPANY, cs)}
  ELSE IF dbError THEN {Failed(cs)}
  ELSE LET normalized_name == NormalizedName(company_name)
           result == ExactMatches(cs, normalized_name)
       IN  IF result /= {} THEN {Resolved(i, cs) : i \in result}
           ELSE {Resolved(lastrowid(cs),
                          Append(cs, CompanyRow(Capitalize(company_name), << >>)))}

\* What the source answers to the company search and detail requests:
\* kind "nohit" (no matching link), "nocontainer", "error" (transport error)
\* or "page" with the fields read from the detail page
SiteAnswer(kind, fields) == [kind |-> kind, fields |-> fields]

\* Python None for the dict parse_company_details returns
NO_DATA == << >>

\* Crewing_Bot_2.py parse_company_details
parse_company_details(company_name, site) ==
  IF ~Truthy(company_name) THEN NO_DATA
  ELSE IF site.kind /= "page" THEN NO_DATA
  ELSE [c \in {"name"} \cup DOMAIN site.fields |->
          IF c = "name" THEN company_name ELSE site.fields[c]]

\* A resolver that rewrites the row it finds with the name alone
CB2_get_or_create_company_rewriting(cs, company_name, site, dbError) ==
  IF ~Truthy(company_name) THEN {Resolved(NO_COMPANY, cs)}
  ELSE IF dbError THEN {Failed(cs)}
  ELSE LET normalized_name == NormalizedName(company_name)
           exact == ExactMatches(cs, normalized_name)
           like == LikeMatches(cs, normalized_name)
           company_data == parse_company_details(company_name, site)
           named == CompanyRow(Capitalize(company_name), << >>)
           row == IF DOMAIN company_data = {} THEN named
                  ELSE CompanyRow(Capitalize(company_data["name"]), company_data)
       IN  IF exact /= {} THEN {Resolved(i, [cs EXCEPT ![i] = named]) : i \in exact}
           ELSE IF like /= {} THEN {Resolved(i, cs) : i \in like}
           ELSE IF UniqueViolation(cs, row) THEN {Failed(cs)}
           ELSE {Resolved(lastrowid(cs), Append(cs, row))}

\* Crewing_Bot_2.py get_or_create_company
CB2_get_or_create_company(cs, company_name, site, dbError) ==
  IF ~Truthy(company_name) THEN {Resolved(NO_COMPANY, cs)}
  ELSE IF dbError THEN {Failed(cs)}
  ELSE LET normalized_name == NormalizedName(company_name)
           exact == ExactMatches(cs, normalized_name)
           like == LikeMatches(cs, normalized_name)
           company_data == parse_company_details(company_name, site)
           row == IF DOMAIN company_data = {}
                  THEN CompanyRow(Capitalize(company_name), << >>)
                  ELSE CompanyRow(Capitalize(company_data["name"]), company_data)
       IN  IF exact /= {} THEN {Resolved(i, cs) : i \in exact}
           ELSE IF like /= {} THEN {Resolved(i, cs) : i \in like}
           ELSE IF UniqueViolation(cs, row) THEN {Failed(cs)}
           ELSE {Resolved(lastrowid(cs), Append(cs, row))}

\* update_company_info(company_id, website=website)
update_company_info(cs, company_id, website, dbError) ==
  IF dbError \/ company_id \notin 1..Len(cs) THEN cs
  ELSE [cs EXCEPT ![company_id].website = website]

-----------------------------------------------------------------------------
(* Vacancy store *)

Saved(ok, vs, cs) == [ok |-> ok, vacancies |-> vs, companies |-> cs]

\* The faults the connection raises during one call (sqlite3.Error): while
\* resolving the company, while updating the company, while writing the vacancy
NoFaults == [company |-> FALSE, update |-> FALSE, vacancy |-> FALSE]

\* website.strip(); prefix "http://" unless it starts with http:// or https://
HttpPrefix == <<"h","t","t","p",":","/","/">>

HttpsPrefix == <<"h","t","t","p","s",":","/","/">>

NormalizedWebsite(w) ==
  LET website == Strip(w)
  IN  IF website /= << >> /\ ~(StartsWith(website, HttpPrefix) \/ StartsWith(website, HttpsPrefix))
      THEN HttpPrefix \o website
      ELSE website

RowValues(data, company_id) ==
  [c \in VacancyTextCols \cup {"company_id"} |->
     IF c = "company_id" THEN company_id ELSE Get(data, c)]

\* INSERT ... ON CONFLICT(id) DO UPDATE SET col=excluded.col for col in columns:
\* a column that is not listed keeps its old value (NULL on insert)
UpsertOnConflictUpdate(vs, id, columns, values) ==
  LET old == IF id \in DOMAIN vs THEN vs[id] ELSE EmptyRow
      new == [c \in DOMAIN EmptyRow |-> IF c \in columns THEN values[c] ELSE old[c]]
  IN  [i \in DOMAIN vs \cup {id} |-> IF i = id THEN new ELSE vs[i]]

\* INSERT OR REPLACE: the old row is deleted, a column that is not listed is NULL
InsertOrReplace(vs, id, columns, values) ==
  LET new == [c \in DOMAIN EmptyRow |-> IF c \in columns THEN values[c] ELSE EmptyRow[c]]
  IN  [i \in DOMAIN vs \cup {id} |-> IF i = id THEN new ELSE vs[i]]

\* Vacancy_Parser.py save_vacancy, after the company has been resolved to r
VP_write_vacancy(vs, data, r, faults) ==
  LET company_id == r.id
      website == Get(data, "website")
      cs1 == IF company_id /= NO_COMPANY /\ Truthy(website)
             THEN update_company_info(r.companies, company_id,
                                      NormalizedWebsite(website), faults.update)
             ELSE r.companies
      columns == IF company_id /= NO_COMPANY
                 THEN VP_columns \cup {"company_id"} ELSE VP_columns
  IN  IF faults.vacancy THEN Saved(FALSE, vs, cs1)
      ELSE Saved(TRUE,
                 UpsertOnConflictUpdate(vs, data["id"], columns, RowValues(data, company_id)),
                 cs1)

\* Vacancy_Parser.py save_vacancy: the set of possible outcomes
save_vacancy(vs, cs, data, faults) ==
  IF DOMAIN data = {} \/ "id" \notin DOMAIN data THEN {Saved(FALSE, vs, cs)}
  ELSE LET agency == Get(data, "agency")
           resolutions == IF Truthy(agency)
                          THEN get_or_create_company(cs, agency, faults.company)
                          ELSE {Resolved(NO_COMPANY, cs)}
       IN  {VP_write_vacancy(vs, data, r, faults) : r \in resolutions}

\* Crewing_Bot_2.py save_vacancy
CB2_save_vacancy(vs, cs, data, site, faults) ==
  IF DOMAIN data = {} THEN {Saved(FALSE, vs, cs)}
  ELSE LET resolutions ==
             CB2_get_or_create_company(cs, Get(data, "agency"), site, faults.company)
       IN  {IF faults.vacancy THEN Saved(FALSE, vs, r.companies)
            ELSE Saved(TRUE,
                       InsertOrReplace(vs, data["id"], CB2_columns \cup {"company_id"},
                                       RowValues(data, r.id)),
                       r.companies) : r \in resolutions}

MaxOf(S) == CHOOSE m \in S : \A x \in S : x <= m

\* get_last_vacancy_id: SELECT MAX(id); "result[0] if result and result[0] else 313620"
get_last_vacancy_id(vs, dbError) ==
  IF dbError THEN SEED_ID
  ELSE IF DOMAIN vs /= {} /\ MaxOf(DOMAIN vs) /= 0 THEN MaxOf(DOMAIN vs)
  ELSE SEED_ID

-----------------------------------------------------------------------------
(* Fetch-retry controller *)

\* What the source answers to the request of one vacancy page: kind "notfound"
\* (no content block), "error" (transport error), "parseerror" (a page whose
\* parsing raises) or "doc" with the page fields
PageAnswer(kind, fields) == [kind |-> kind, fields |-> fields]

VP_fetched == {"title", "views", "agency", "website"}

CB2_fetched == {"title", "views", "agency"}

\* fetch_vacancy: None, or the dict {"id": vacancy_id, ...}
fetch_vacancy(v, vacancy_id, answer) ==
  IF answer.kind /= "doc" THEN NO_DATA
  ELSE LET keys == DOMAIN answer.fields \cap (IF v = "VP" THEN VP_fetched ELSE CB2_fetched)
       IN  [k \in {"id"} \cup keys |-> IF k = "id" THEN vacancy_id ELSE answer.fields[k]]

SaveOutcomes(v, vs, cs, data, site, faults) ==
  IF v = "VP" THEN save_vacancy(vs, cs, data, faults)
  ELSE CB2_save_vacancy(vs, cs, data, site, faults)

\* isinstance(exc, cls) for the exceptions raised here: requests' RequestException,
\* the AttributeError (and the like) of a page that does not parse, and
\* sqlite3.Error all derive from Exception
IsInstanceExact(exc, cls) == cls = exc

IsInstance(exc, cls) == cls = "Exception" \/ cls = exc

\* try: ... except <handlers>: the exception that leaves the try statement
Propagated(handlers, exc) ==
  IF exc = "none" \/ \E cls \in handlers : IsInstance(exc, cls) THEN "none" ELSE exc

\* The first exception raised by statements executed in order
FirstRaised(excs) ==
  IF \A i \in 1..Len(excs) : excs[i] = "none" THEN "none"
  ELSE excs[CHOOSE i \in 1..Len(excs) :
              excs[i] /= "none" /\ \A j \in 1..(i - 1) : excs[j] = "none"]

\* The exception that leaves fetch_vacancy: raise_for_status / the transport
\* raise RequestException, parsing an unexpected page raises AttributeError
fetch_vacancy_raised(v, answer) ==
  Propagated(IF v = "VP" THEN {"Exception"} ELSE {"RequestException", "Exception"},
             IF answer.kind = "error" THEN "RequestException"
             ELSE IF answer.kind = "parseerror" THEN "AttributeError"
             ELSE "none")

\* The exception that leaves save_vacancy(data): the store raises sqlite3.Error
\* inside get_or_create_company, inside update_company_info or at the write
save_vacancy_raised(v, faults) ==
  LET sqlite(f) == IF f THEN "sqlite3.Error" ELSE "none"
      company == Propagated(IF v = "VP" THEN {"sqlite3.Error"}
                            ELSE {"sqlite3.Error", "Exception"}, sqlite(faults.company))
      update == Propagated({"sqlite3.Error"}, sqlite(faults.update))
  IN  Propagated(IF v = "VP" THEN {"sqlite3.Error", "Exception"} ELSE {"sqlite3.Error"},
                 FirstRaised(<<company, update, sqlite(faults.vacancy)>>))

\* The exception that leaves one activation of process_vacancy
\* (try: ... except Exception: return False)
process_vacancy_raised(v, answer, faults) ==
  Propagated({"Exception"},
             FirstRaised(<<fetch_vacancy_raised(v, answer),
                           IF answer.kind = "doc" THEN save_vacancy_raised(v, faults)
                           ELSE "none">>))

\* A wait that does not grow with the retries
retry_wait_constant(request_delay, retry_count) == request_delay

\* sleep(REQUEST_DELAY * (retry_count + 1)) before the recursive call
retry_wait(request_delay, retry_count) == request_delay * (retry_count + 1)

\* One activation process_vacancy(vacancy_id, retry_count) up to its return or
\* its recursive call: again = TRUE when it calls process_vacancy(.., retry_count + 1)
Activation(again, ok, vs, cs, saved) ==
  [again |-> again, ok |-> ok, vacancies |-> vs, companies |-> cs, saved |-> saved]

\* A controller that gives the retries after a failed save a budget of their own
process_vacancy_save_budget(v, vs, cs, vacancy_id, retry_count, answer, site, faults) ==
  LET data == fetch_vacancy(v, vacancy_id, answer)
  IN  IF DOMAIN data = {}
      THEN IF retry_count < MAX_RETRIES
           THEN {Activation(TRUE, FALSE, vs, cs, FALSE)}
           ELSE {Activation(FALSE, FALSE, vs, cs, FALSE)}
      ELSE {IF ~s.ok /\ retry_count < MAX_RETRIES + MAX_RETRIES
            THEN Activation(TRUE, FALSE, s.vacancies, s.companies, TRUE)
            ELSE Activation(FALSE, s.ok, s.vacancies, s.companies, TRUE)
            : s \in SaveOutcomes(v, vs, cs, data, site, faults)}

\* A controller that returns True after its last attempt whatever save_vacancy
\* returned ("return True" for "return success")
process_vacancy_return_true(v, vs, cs, vacancy_id, retry_count, answer, site, faults) ==
  LET data == fetch_vacancy(v, vacancy_id, answer)
  IN  IF DOMAIN data = {}
      THEN IF retry_count < MAX_RETRIES
           THEN {Activation(TRUE, FALSE, vs, cs, FALSE)}
           ELSE {Activation(FALSE, FALSE, vs, cs, FALSE)}
      ELSE {IF ~s.ok /\ retry_count < MAX_RETRIES
            THEN Activation(TRUE, FALSE, s.vacancies, s.companies, TRUE)
            ELSE Activation(FALSE, TRUE, s.vacancies, s.companies, TRUE)
            : s \in SaveOutcomes(v, vs, cs, data, site, faults)}

process_vacancy(v, vs, cs, vacancy_id, retry_count, answer, site, faults) ==
  LET data == fetch_vacancy(v, vacancy_id, answer)
  IN  IF DOMAIN data = {}
      THEN IF retry_count < MAX_RETRIES
           THEN {Activation(TRUE, FALSE, vs, cs, FALSE)}
           ELSE {Activation(FALSE, FALSE, vs, cs, FALSE)}
      ELSE {IF ~s.ok /\ retry_count < MAX_RETRIES
            THEN Activation(TRUE, FALSE, s.vacancies, s.companies, TRUE)
            ELSE Activation(FALSE, s.ok, s.vacancies, s.companies, TRUE)
            : s \in SaveOutcomes(v, vs, cs, data, site, faults)}

-----------------------------------------------------------------------------
(* Inputs *)

GlobalMarineLtd ==
  <<"G","l","o","b","a","l"," ","M","a","r","i","n","e"," ","L","t","d">>

\* a name with two spaces between its words
SpacedName == <<"a"," "," ","b">>

DocGlobalMarine ==
  [title |-> <<"T">>, views |-> <<"9">>, agency |-> GlobalMarineLtd,
   website |-> <<"w",".","u","a">>]

DocNoAgency == [title |-> <<"U">>]

DocSpaced == [title |-> <<"T">>, agency |-> SpacedName]

Docs == {DocGlobalMarine, DocNoAgency, DocSpaced}

PageAnswers ==
  {PageAnswer("notfound", << >>), PageAnswer("error", << >>)}
    \cup {PageAnswer("doc", d) : d \in Docs}

CompanyPage == [url |-> <<"/","c","/","7">>, country |-> <<"U","A">>, phones |-> <<"1">>]

NoHit == SiteAnswer("nohit", << >>)

\* The answers of the company search that matter to a variant: Vacancy_Parser.py
\* never asks the source about a company
SiteAnswersOf(v) ==
  IF v = "VP" THEN {NoHit} ELSE {NoHit, SiteAnswer("page", CompanyPage)}

\* The faults that can strike save_vacancy(data): a fault is listed only where
\* the variant executes the statement it strikes
FaultsOf(v, data) ==
  {f \in [company : BOOLEAN, update : BOOLEAN, vacancy : BOOLEAN] :
     /\ f.company => Truthy(Get(data, "agency"))
     /\ f.update => /\ v = "VP" /\ ~f.company
                    /\ Truthy(Get(data, "agency")) /\ Truthy(Get(data, "website"))}

-----------------------------------------------------------------------------
(* State *)

PvIdle ==
  [active |-> FALSE, id |-> 0, retry_count |-> 0, fetches |-> 0, saves |-> 0,
   first |-> PageAnswer("notfound", << >>), allNotFound |-> TRUE,
   faulty |-> FALSE, hadRow |-> FALSE, fresh |-> FALSE, caller |-> "none",
   slept |-> << >>]

\* The last call that returned, its arguments, its result and what it found
\* (slept: the waits of the call in order; raised: the exception that left the
\* call, "none" when it returned);
\* RetNone while a call of process_vacancy is under way
RetNone ==
  [op |-> "none", id |-> 0, data |-> NO_DATA, name |-> NULL, ok |-> FALSE, rid |-> 0,
   faulty |-> FALSE, site |-> NoHit, fetches |-> 0, saves |-> 0,
   first |-> PageAnswer("notfound", << >>), allNotFound |-> TRUE, hadRow |-> FALSE,
   fresh |-> FALSE, slept |-> << >>, raised |-> "none"]

\* The coroutines of the bot that scan: the auto-parsing loop and the manual scan
Tasks == {"auto", "manual"}

\* The auto-parsing loops: toggle_parsing creates a task on every start, so a
\* second loop ("auto2") can be alive beside one that has not ended yet
AutoLoops == {"auto", "auto2"}

\* Every loop that scans: the coroutines of the bot, VacancyParser.run and the
\* batch of CrewingParser.scrape_company_details
Loops == Tasks \cup AutoLoops \cup {"run", "enrich"}

\* Two processes that work on the same database file
Processes == {1, 2}

\* The frame of a process: the call it is in (op: "resolve" for
\* get_or_create_company, "save" for save_vacancy), where it stands (pc), the
\* arguments (company_name, data, and the answer of the source to the company
\* search), the local company_id, and what is observed of the call: missed (its
\* lookup found no row) and err (sqlite3.Error was raised and caught)
ProcIdle ==
  [pc |-> "idle", op |-> "none", company_name |-> NULL, data |-> << >>, site |-> NoHit,
   company_id |-> NO_COMPANY, missed |-> FALSE, err |-> FALSE]

\* The frame of a scanning loop: where it stands (pc), the locals of the scan
\* cycle (start_id, end_id: the arguments of run, 0 for None; end: the last id
\* of run), the results process_vacancy has returned in
\* this cycle, the seconds waited between two cycles, and what is observed of
\* it: stopped (its loop test saw the stop), stopRequested (stop_auto_parsing
\* ran while it waited), lastError (get_last_vacancy_id met a store error),
\* delayed (a request delay has passed since the last call of process_vacancy),
\* passedUpTo (the largest id the loop's previous cycle processed with a
\* failure, 0 when there is none), handed (the ids run has handed to
\* process_vacancy, in order), exit (how the try block of run was left),
\* closed (what the finally block of run has closed), selected (the ids that
\* scrape_company_details fetched at its start), pages (what it extracted from
\* the detail page of each company visited so far)
ScanIdle ==
  [pc |-> "idle", start |-> 0, current_id |-> 0, not_found_count |-> 0, found |-> 0,
   results |-> << >>, ticks |-> 0, stopped |-> FALSE, stopRequested |-> FALSE,
   lastError |-> FALSE, delayed |-> FALSE, passedUpTo |-> 0,
   start_id |-> 0, end_id |-> 0, end |-> 0, handed |-> << >>,
   exit |-> "none", closed |-> {}, selected |-> << >>, pages |-> << >>]

\* No call of a second process on the same database file is under way
NoProcs == [p \in Processes |-> ProcIdle]

\* REQUEST_DELAY = random.randint(3, 6), drawn once when the module is loaded
RequestDelays == 3..6

\* The process after construction, with delay d drawn
Constructed(d) ==
  /\ variant \in {"VP", "CB2"}
  /\ vacancies = << >>
  /\ companies = << >>
  /\ pv = PvIdle
  /\ ret = RetNone
  /\ scan = [t \in Loops |-> ScanIdle]
  /\ parsing_active = FALSE
  /\ running = "none"
  /\ REQUEST_DELAY = d
  /\ procs = NoProcs

\* The calls of the store and the scan loops of the bot never read
\* REQUEST_DELAY: one value stands for all
Init == Constructed(3)

\* Every delay the process may have drawn
InitDelay == \E d \in RequestDelays : Constructed(d)

Idle == ~pv.active /\ running = "none"

RowOf(vs, id) == IF id \in DOMAIN vs THEN vs[id] ELSE EmptyRow

Faulty(f) == f /= NoFaults

-----------------------------------------------------------------------------
(* Calls of the store *)

\* save_vacancy(data) with data as fetch_vacancy builds it from page fields d
SaveVacancy(id, d, site) ==
  /\ Idle
  /\ LET data == fetch_vacancy(variant, id, PageAnswer("doc", d))
     IN  \E faults \in FaultsOf(variant, data) :
         \E s \in SaveOutcomes(variant, vacancies, companies, data, site, faults) :
           /\ Len(s.companies) <= MaxCompanies
           /\ vacancies' = s.vacancies
           /\ companies' = s.companies
           /\ ret' = [RetNone EXCEPT !.op = "save", !.id = id, !.data = data, !.ok = s.ok,
                        !.faulty = Faulty(faults), !.site = site,
                        !.hadRow = id \in DOMAIN vacancies]
  /\ UNCHANGED <<REQUEST_DELAY, procs, variant, pv, scan, parsing_active, running>>

GetLastVacancyId(dbError) ==
  /\ Idle
  /\ ret' = [RetNone EXCEPT !.op = "last", !.rid = get_last_vacancy_id(vacancies, dbError),
               !.faulty = dbError]
  /\ UNCHANGED <<REQUEST_DELAY, procs, variant, vacancies, companies, pv, scan, parsing_active, running>>

\* The records handed to save_vacancy: every document under one id, and the
\* plain document under a larger id, under id 0 and under an id below the
\* seed (as admin_parse and run with a start_id hand it)
SaveInputs ==
  {<<SEED_ID + 1, d>> : d \in Docs}
    \cup {<<SEED_ID + 2, DocNoAgency>>, <<0, DocNoAgency>>, <<SEED_ID - 1, DocNoAgency>>}

Next ==
  \/ \E in \in SaveInputs, site \in SiteAnswersOf(variant) :
        SaveVacancy(in[1], in[2], site)
  \/ \E dbError \in BOOLEAN : GetLastVacancyId(dbError)

Spec == Init /\ [][Next]_vars

-----------------------------------------------------------------------------
(* Calls of the fetch-retry controller *)

\* The activation process_vacancy(id, retry_count) of frame f (a frame with
\* retry_count = 0 is the call itself, the later ones are its recursive calls)
RunActivation(f, answer, site) ==
  \E faults \in FaultsOf(variant, fetch_vacancy(variant, f.id, answer)) :
  \E a \in process_vacancy(variant, vacancies, companies, f.id, f.retry_count,
                           answer, site, faults) :
    LET raised == process_vacancy_raised(variant, answer, faults)
        again == a.again /\ raised = "none"
        g == [f EXCEPT !.fetches = @ + 1,
                       !.saves = IF a.saved THEN @ + 1 ELSE @,
                       !.first = IF f.fetches = 0 THEN answer ELSE @,
                       !.allNotFound = @ /\ answer.kind = "notfound",
                       !.faulty = @ \/ Faulty(faults),
                       !.slept = IF again
                                 THEN Append(@, retry_wait(REQUEST_DELAY, f.retry_count))
                                 ELSE @]
    IN  /\ Len(a.companies) <= MaxCompanies
        /\ vacancies' = a.vacancies
        /\ companies' = a.companies
        /\ IF again
           THEN /\ pv' = [g EXCEPT !.active = TRUE, !.retry_count = @ + 1]
                /\ ret' = RetNone
           ELSE /\ pv' = PvIdle
                /\ ret' = [RetNone EXCEPT !.op = "process", !.id = f.id,
                             !.ok = a.ok /\ raised = "none",
                             !.faulty = g.faulty, !.fetches = g.fetches,
                             !.saves = g.saves, !.first = g.first,
                             !.allNotFound = g.allNotFound, !.hadRow = f.hadRow,
                             !.fresh = f.fresh, !.slept = g.slept, !.raised = raised]

\* An answer without a document leaves nothing to resolve
Relevant(answer, site) == answer.kind /= "doc" => site = NoHit

ProcessVacancy(id, answer, site) ==
  /\ Idle
  /\ Relevant(answer, site)
  /\ RunActivation([PvIdle EXCEPT !.id = id, !.hadRow = id \in DOMAIN vacancies,
                                  !.fresh = (DOMAIN vacancies = {} /\ companies = << >>),
                                  !.caller = "call"],
                   answer, site)
  /\ UNCHANGED <<REQUEST_DELAY, procs, variant, scan, parsing_active, running>>

ProcessVacancyRetry(answer, site) ==
  /\ pv.active
  /\ pv.caller = "call"
  /\ Relevant(answer, site)
  /\ RunActivation(pv, answer, site)
  /\ UNCHANGED <<REQUEST_DELAY, procs, variant, scan, parsing_active, running>>

\* The ids handed to process_vacancy, each with the answers the source may give
ProcessInputs ==
  {<<SEED_ID + 1, a>> : a \in PageAnswers \ {PageAnswer("doc", DocSpaced)}}
    \cup {<<SEED_ID + 2, a>> : a \in {PageAnswer("notfound", << >>),
                                     PageAnswer("parseerror", << >>),
                                     PageAnswer("doc", DocNoAgency)}}

AnswersFor(id) == {in[2] : in \in {x \in ProcessInputs : x[1] = id}}

NextProcess ==
  \/ \E in \in ProcessInputs, site \in SiteAnswersOf(variant) :
        ProcessVacancy(in[1], in[2], site)
  \/ \E answer \in AnswersFor(pv.id), site \in SiteAnswersOf(variant) :
        ProcessVacancyRetry(answer, site)

SpecProcess == InitDelay /\ [][NextProcess]_vars

-----------------------------------------------------------------------------
(* Properties of the fetch-retry controller (SpecProcess) *)

\* C1 (as claimed): process_vacancy(id) returns true if and only if the store
\* holds a vacancy row with that id when it returns.
C1_TrueIffRowStored ==
  ret.op = "process" => (ret.ok <=> ret.id \in DOMAIN vacancies)

\* C1 (amended): process_vacancy(id) returns true only if the store holds a row
\* with that id when it returns, and for an id that had no row before the call
\* it returns true if and only if the row is there on return; a row that was
\* already present does not make a call return true whose attempts all failed.
C1_TrueOnlyIfRowStored ==
  ret.op = "process" =>
    /\ ret.ok => ret.id \in DOMAIN vacancies
    /\ ~ret.hadRow => (ret.ok <=> ret.id \in DOMAIN vacancies)

C1_Witness ==
  /\ ret.op = "process" /\ ret.ok /\ ~ret.hadRow
  /\ ret.id \in DOMAIN vacancies

\* C2: when every fetch of the id answers "not found", one call of
\* process_vacancy fetches exactly 4 times and returns false.
C2_NotFoundFetchedFourTimes ==
  (ret.op = "process" /\ ret.allNotFound) => (ret.fetches = 4 /\ ~ret.ok)

C2_Witness ==
  ret.op = "process" /\ ret.allNotFound /\ ret.fetches = 4 /\ ret.saves = 0

GlobalMarineLtdCapitalized ==
  <<"G","l","o","b","a","l"," ","m","a","r","i","n","e"," ","l","t","d">>

\* C10: from the empty store, when the fetch of 313621 answers a valid document
\* with agency "Global Marine Ltd" (and the store raises no error),
\* process_vacancy(313621) returns true, the store holds exactly the vacancy
\* 313621 and exactly one company, named "Global marine ltd", the vacancy's
\* company_id is that company's id, and get_last_vacancy_id returns 313621.
C10_EndToEnd ==
  (/\ ret.op = "process" /\ ret.id = 313621 /\ ret.fresh /\ ~ret.faulty
   /\ ret.first = PageAnswer("doc", DocGlobalMarine))
  => /\ ret.ok
     /\ DOMAIN vacancies = {313621}
     /\ Len(companies) = 1
     /\ companies[1].name = GlobalMarineLtdCapitalized
     /\ vacancies[313621].company_id = 1
     /\ get_last_vacancy_id(vacancies, FALSE) = 313621

C10_Witness ==
  /\ ret.op = "process" /\ ret.id = 313621 /\ ret.fresh /\ ~ret.faulty
  /\ ret.first = PageAnswer("doc", DocGlobalMarine)
  /\ ret.ok /\ Len(companies) = 1

\* C11: no failure inside the processing of one id (transport error, missing
\* container, page that does not parse, store error) leaves process_vacancy
\* as an exception: every call returns, with a boolean.
C11_NoExceptionEscapes ==
  ret.op = "process" => (ret.raised = "none" /\ ret.ok \in BOOLEAN)

\* A call that met a page that does not parse or a transport error, and store
\* errors, and returned false
C11_Witness ==
  /\ ret.op = "process" /\ ret.raised = "none" /\ ~ret.ok
  /\ ret.first.kind \in {"error", "parseerror"}
  /\ ret.faulty

\* C16: page-not-found, transport errors and store write failures draw on one
\* retry budget: whatever the mix, a call of process_vacancy fetches at most 4
\* times and saves at most 4 times, and it returns false only when the 4
\* attempts are used up.
C16_OneRetryBudget ==
  /\ pv.active => (pv.fetches <= 3 /\ pv.saves <= pv.fetches)
  /\ ret.op = "process" =>
       /\ ret.fetches <= 4
       /\ ret.saves <= 4 /\ ret.saves <= ret.fetches
       /\ ~ret.ok => ret.fetches = 4

\* A call that met a transport error first and two failed saves later, and
\* returned false after its 4th attempt
C16_Witness ==
  /\ ret.op = "process" /\ ~ret.ok /\ ret.fetches = 4 /\ ret.saves = 2
  /\ ret.first.kind = "error"

RECURSIVE SumSeq(_)
SumSeq(q) == IF q = << >> THEN 0 ELSE q[1] + SumSeq(Tail(q))

\* C17: the wait before retry n + 1 is REQUEST_DELAY * (n + 1) with the one
\* REQUEST_DELAY in 3..6 of the process; a call that used up its retries has
\* waited 6 * REQUEST_DELAY in all.
C17_LinearBackoff ==
  /\ REQUEST_DELAY \in 3..6
  /\ ret.op = "process" =>
       /\ Len(ret.slept) = ret.fetches - 1
       /\ \A n \in 1..Len(ret.slept) : ret.slept[n] = REQUEST_DELAY * n
       /\ ret.fetches = 4 => SumSeq(ret.slept) = 6 * REQUEST_DELAY

\* REQUEST_DELAY never changes
C17_DelayDrawnOnce == [][REQUEST_DELAY' = REQUEST_DELAY]_vars

\* A call that used up its retries with REQUEST_DELAY = 5
C17_Witness ==
  /\ ret.op = "process" /\ ~ret.ok /\ ret.fetches = 4
  /\ REQUEST_DELAY = 5 /\ ret.slept = <<5, 10, 15>>

-----------------------------------------------------------------------------
(* Properties of the vacancy store (Spec) *)

\* C4 (as claimed): a call of save_vacancy that repeats the previous call (same
\* id, same data, no store error in either) leaves the row of that id with the
\* field values the first call gave it.
C4_SaveTwiceSameRow ==
  [][(/\ ret.op = "save" /\ ret.ok /\ ~ret.faulty
      /\ ret'.op = "save" /\ ret'.data = ret.data /\ ret'.site = ret.site
      /\ ~ret'.faulty)
     => (/\ ret.id \in DOMAIN vacancies'
         /\ vacancies'[ret.id] = vacancies[ret.id])]_vars

\* C5 (as claimed): get_last_vacancy_id returns 313620 when no vacancy is
\* stored and otherwise the largest id stored (no row is ever deleted, so the
\* largest id ever inserted).
C5_LastIdIsSeedOrMax ==
  (ret.op = "last" /\ ~ret.faulty) =>
    ret.rid = (IF DOMAIN vacancies = {} THEN 313620 ELSE MaxOf(DOMAIN vacancies))

\* C6 (as claimed): save_vacancy of Vacancy_Parser.py on an id that is stored
\* gives every non-id column the value of the new record; a column whose field
\* the record lacks, company_id of a record without agency included, is null.
C6_FullReplace ==
  [][(/\ variant = "VP"
      /\ ret'.op = "save" /\ ret'.ok /\ ~ret'.faulty /\ ret'.hadRow)
     => (/\ \A c \in VacancyTextCols :
               vacancies'[ret'.id][c] = Get(ret'.data, c)
         /\ ~Truthy(Get(ret'.data, "agency")) =>
               vacancies'[ret'.id].company_id = NO_COMPANY)]_vars

\* C27: a call of save_vacancy that returns false leaves the store as it
\* was: no vacancy row and no company row is added or modified.
C27_FalseLeavesStoreUnchanged ==
  [][(ret'.op = "save" /\ ~ret'.ok) =>
       (vacancies' = vacancies /\ companies' = companies)]_vars

\* C28: get_last_vacancy_id never returns a value below the seed 313620,
\* whatever vacancies are stored.
C28_LastIdNeverBelowSeed ==
  ret.op = "last" => ret.rid >= SEED_ID

-----------------------------------------------------------------------------
(* The company resolver (SpecResolve) *)

MaxResolved == 3

\* parse_agency_2.py save_companies, one company of the list: the agency
\* parser fills the same table with the names as the listing shows them
save_companies(cs, company) ==
  LET row == CompanyRow(company.name, company)
  IN  IF UniqueViolation(cs, row) THEN cs ELSE Append(cs, row)

NameAb == <<"a","b">>

NameWild == <<"a","_","b">>

\* a name that holds NameAb
NameXab == <<"x","a","b">>

\* The names handed to get_or_create_company
ResolveNames == {NULL, << >>, NameAb, SpacedName, NameWild, NameXab}

\* The companies of the agency listing
ListedCompanies ==
  {[name |-> n, url |-> CompanyPage.url, country |-> NULL, city |-> NULL] :
     n \in {<<"x","a"," "," ","b">>, <<"a","x","b">>}}

ResolveSites ==
  {NoHit, SiteAnswer("nocontainer", << >>), SiteAnswer("error", << >>),
   SiteAnswer("page", CompanyPage)}

ResolveOutcomes(v, cs, name, site, dbError) ==
  IF v = "VP" THEN get_or_create_company(cs, name, dbError)
  ELSE CB2_get_or_create_company(cs, name, site, dbError)

\* The site is asked only by Crewing_Bot_2.py, and only for a name that is
\* given and that both lookups miss
ResolveSitesOf(v, cs, name) ==
  IF v = "CB2" /\ Truthy(name)
     /\ ExactMatches(cs, NormalizedName(name)) = {}
     /\ LikeMatches(cs, NormalizedName(name)) = {}
  THEN ResolveSites ELSE {NoHit}

ResolveCompany(name, site, dbError) ==
  /\ Idle
  /\ dbError => Truthy(name)
  /\ \E r \in ResolveOutcomes(variant, companies, name, site, dbError) :
       /\ Len(r.companies) <= MaxResolved
       /\ companies' = r.companies
       /\ ret' = [RetNone EXCEPT !.op = "resolve", !.name = name, !.site = site,
                    !.faulty = r.err, !.rid = r.id]
  /\ UNCHANGED <<REQUEST_DELAY, procs, variant, vacancies, pv, scan, parsing_active, running>>

SaveCompanies(company) ==
  /\ Idle
  /\ Len(companies) < MaxResolved - 1
  /\ companies' = save_companies(companies, company)
  /\ ret' = [RetNone EXCEPT !.op = "listed", !.name = company.name]
  /\ UNCHANGED <<REQUEST_DELAY, procs, variant, vacancies, pv, scan, parsing_active, running>>

NextResolve ==
  \/ \E name \in ResolveNames, dbError \in BOOLEAN :
       \E site \in ResolveSitesOf(variant, companies, name) : ResolveCompany(name, site, dbError)
  \/ \E company \in ListedCompanies : SaveCompanies(company)

SpecResolve == Init /\ [][NextResolve]_vars

\* Two names are the same without regard to case and to runs of spaces
SameName(a, b) == NormalizedName(a) = NormalizedName(b)

\* Name a holds name b as a substring, without regard to case and runs of spaces
HoldsName(a, b) == Contains(NormalizedName(a), NormalizedName(b))

C8_ExactBeforeFuzzy ==
  [][(/\ variant = "CB2" /\ ret'.op = "resolve" /\ ~ret'.faulty
      /\ \E i \in 1..Len(companies) : PyLower(companies[i].name) = PyLower(ret'.name)
      /\ \E j \in 1..Len(companies) :
           /\ PyLower(companies[j].name) /= PyLower(ret'.name)
           /\ Contains(PyLower(companies[j].name), PyLower(ret'.name)))
     => (/\ ret'.rid \in 1..Len(companies)
         /\ PyLower(companies[ret'.rid].name) = PyLower(ret'.name))]_vars

\* C9 (as claimed): resolving (Crewing_Bot_2.py) a name that matches no stored
\* company, neither as the same name nor as a substring, while the detail fetch
\* fails, adds exactly one company row: name = the capitalized input, every
\* other field null.
C9_MissCreatesMinimalRow ==
  [][(/\ variant = "CB2" /\ ret'.op = "resolve" /\ ~ret'.faulty
      /\ ret'.name /= NULL /\ ret'.name /= << >>
      /\ ret'.site.kind /= "page"
      /\ \A i \in 1..Len(companies) : ~HoldsName(companies[i].name, ret'.name))
     => companies' = Append(companies, CompanyRow(Capitalize(ret'.name), << >>))]_vars

\* C21: whenever, without regard to case, the input name is contained in a
\* stored company's name or a stored company's name is contained in the input
\* name, get_or_create_company of Crewing_Bot_2.py returns a stored company's id
\* and creates no row.
C21_SubstringEitherWay ==
  [][(/\ variant = "CB2" /\ ret'.op = "resolve" /\ ~ret'.faulty
      /\ Truthy(ret'.name)
      /\ \E i \in 1..Len(companies) :
           \/ Contains(PyLower(companies[i].name), PyLower(ret'.name))
           \/ Contains(PyLower(ret'.name), PyLower(companies[i].name)))
     => (/\ ret'.rid \in 1..Len(companies)
         /\ companies' = companies)]_vars

\* C26: resolving the same non-empty name twice in sequence, nothing else
\* written in between and no store error, returns the same company id both
\* times and adds no second row.
C26_SameNameSameId ==
  [][(/\ ret.op = "resolve" /\ ret'.op = "resolve"
      /\ Truthy(ret.name) /\ ret'.name = ret.name
      /\ ~ret.faulty /\ ~ret'.faulty)
     => (/\ ret'.rid = ret.rid
         /\ companies' = companies)]_vars

\* C13: get_or_create_company never modifies a company row that exists: after
\* the call every row that was there before is unchanged, and at most one row
\* has been added.
C13_ResolveOnlyAppends ==
  [][ret'.op = "resolve" =>
       /\ Len(companies') \in {Len(companies), Len(companies) + 1}
       /\ SubSeq(companies', 1, Len(companies)) = companies]_vars

\* A resolution that found a company with details in the store
C13_Witness ==
  /\ ret.op = "resolve" /\ ret.rid \in 1..Len(companies)
  /\ Len(companies) >= 2
  /\ companies[ret.rid].url /= NULL

-----------------------------------------------------------------------------
(* The scan loops of the bot (SpecScan): vacancy_bot_1.py / vacancy_bot.py.   *)
(* A coroutine runs alone from one await to the next: running names the       *)
(* coroutine that holds the thread, "none" when all are suspended.            *)

RECURSIVE process_vacancy_call(_, _, _, _, _, _, _)
\* The call process_vacancy(vacancy_id) with its recursive calls; script[n + 1]
\* is what activation n meets: the answer of the source and the store faults
process_vacancy_call(v, vs, cs, vacancy_id, retry_count, script, site) ==
  UNION {IF a.again
         THEN process_vacancy_call(v, a.vacancies, a.companies, vacancy_id,
                                   retry_count + 1, script, site)
         ELSE {a}
         : a \in process_vacancy(v, vs, cs, vacancy_id, retry_count,
                                 script[retry_count + 1].answer, site,
                                 script[retry_count + 1].faults)}

Met(answer, faults) == [answer |-> answer, faults |-> faults]

NotFound == Met(PageAnswer("notfound", << >>), NoFaults)

TransportError == Met(PageAnswer("error", << >>), NoFaults)

Stored == Met(PageAnswer("doc", DocNoAgency), NoFaults)

WriteFails == Met(PageAnswer("doc", DocNoAgency), [NoFaults EXCEPT !.vacancy = TRUE])

\* What the calls of one id may meet: an id beyond the published ones has no page
ScriptsOf(id) ==
  {<<NotFound, NotFound, NotFound, NotFound>>,
   <<TransportError, NotFound, TransportError, NotFound>>}
  \cup (IF id <= SEED_ID + MaxPublished
        THEN {<<Stored, Stored, Stored, Stored>>,
              <<TransportError, WriteFails, NotFound, Stored>>,
              <<WriteFails, WriteFails, WriteFails, WriteFails>>}
        ELSE {})

\* The ids a cycle processed with a failure: call k of the cycle was for start + k - 1
FailedIds(f) == {f.start + k - 1 : k \in {i \in 1..Len(f.results) : ~f.results[i]}}

\* A cycle that resumes where the loop's previous cycle stopped
BeginCycleWhereStopped(f, vs, dbError) ==
  LET last_id == IF f.start = 0 THEN get_last_vacancy_id(vs, dbError) ELSE f.current_id - 1
  IN  [ScanIdle EXCEPT !.pc = "scan", !.start = last_id + 1, !.current_id = last_id + 1,
                       !.lastError = dbError,
                       !.passedUpTo = IF FailedIds(f) = {} THEN 0 ELSE MaxOf(FailedIds(f))]

\* last_id = get_last_vacancy_id(); found = 0; not_found_count = 0; current_id = last_id + 1
BeginCycle(f, vs, dbError) ==
  LET last_id == get_last_vacancy_id(vs, dbError)
  IN  [ScanIdle EXCEPT !.pc = "scan", !.start = last_id + 1, !.current_id = last_id + 1,
                       !.lastError = dbError, !.passedUpTo = IF FailedIds(f) = {} THEN 0 ELSE MaxOf(FailedIds(f))]

\* A store error in get_last_vacancy_id shows only when a vacancy is stored
LastIdErrors(vs) == IF DOMAIN vs = {} THEN {FALSE} ELSE BOOLEAN

\* toggle_parsing while no loop is alive: create_task(start_auto_parsing()),
\* which runs up to the scan loop
StartAutoParsing ==
  /\ running = "none"
  /\ \A t \in AutoLoops : scan[t].pc \in {"idle", "done"}
  /\ ~parsing_active
  /\ parsing_active' = TRUE
  /\ \E dbError \in LastIdErrors(vacancies) :
       scan' = [scan EXCEPT !["auto"] = BeginCycle(@, vacancies, dbError)]
  /\ running' = "auto"
  /\ UNCHANGED <<REQUEST_DELAY, procs, variant, vacancies, companies, pv, ret>>

\* toggle_parsing after a stop, while the loop created earlier is still
\* suspended (in its wait, or after a success): create_task starts a second loop
RestartAutoParsing ==
  /\ running = "none"
  /\ scan["auto"].pc \in {"await", "wait"}
  /\ scan["auto2"].pc \in {"idle", "done"}
  /\ ~parsing_active
  /\ parsing_active' = TRUE
  /\ \E dbError \in LastIdErrors(vacancies) :
       scan' = [scan EXCEPT !["auto2"] = BeginCycle(@, vacancies, dbError)]
  /\ running' = "auto2"
  /\ UNCHANGED <<REQUEST_DELAY, procs, variant, vacancies, companies, pv, ret>>

\* stop_auto_parsing (toggle_parsing while parsing is active)
StopAutoParsing ==
  /\ running = "none"
  /\ parsing_active
  /\ parsing_active' = FALSE
  /\ scan' = [t \in Loops |->
                IF t \in AutoLoops /\ scan[t].pc = "wait"
                THEN [scan[t] EXCEPT !.stopRequested = TRUE] ELSE scan[t]]
  /\ UNCHANGED <<REQUEST_DELAY, procs, variant, vacancies, companies, pv, ret, running>>

\* parse_vacancies_button up to the scan loop
ParseVacanciesButton ==
  /\ running = "none"
  /\ scan["manual"].pc \in {"idle", "done"}
  /\ \E dbError \in LastIdErrors(vacancies) :
       scan' = [scan EXCEPT !["manual"] = BeginCycle(@, vacancies, dbError)]
  /\ running' = "manual"
  /\ UNCHANGED <<REQUEST_DELAY, procs, variant, vacancies, companies, pv, ret, parsing_active>>

\* A loop test that lets one more miss through (<= for <)
ScanGoesOnOneMore(t) ==
  /\ scan[t].not_found_count <= NOT_FOUND_LIMIT
  /\ t \in AutoLoops => parsing_active

\* while not_found_count < 5 [and self.parsing_active]
ScanGoesOn(t) ==
  /\ scan[t].not_found_count < NOT_FOUND_LIMIT
  /\ t \in AutoLoops => parsing_active

\* One test of the scan loop and, when it holds, one iteration: up to the
\* await after a success, or back to the test after a failure
ScanIteration(t) ==
  /\ running = t
  /\ scan[t].pc = "scan"
  /\ ScanGoesOn(t)
  /\ \E script \in ScriptsOf(scan[t].current_id) :
     \E a \in process_vacancy_call(variant, vacancies, companies, scan[t].current_id,
                                   0, script, NoHit) :
       /\ vacancies' = a.vacancies
       /\ companies' = a.companies
       /\ IF a.ok
          THEN /\ scan' = [scan EXCEPT ![t].found = @ + 1,
                                       ![t].not_found_count = 0,
                                       ![t].results = Append(@, TRUE),
                                       ![t].delayed = FALSE,
                                       ![t].pc = "await"]
               /\ running' = "none"
          ELSE /\ scan' = [scan EXCEPT ![t].not_found_count = @ + 1,
                                       ![t].results = Append(@, FALSE),
                                       ![t].delayed = FALSE,
                                       ![t].current_id = @ + 1]
               /\ running' = t
  /\ UNCHANGED <<REQUEST_DELAY, procs, variant, pv, ret, parsing_active>>

\* await self.post_vacancy(current_id); await asyncio.sleep(self.request_delay)
\* are over: current_id += 1 and back to the test
ResumeScan(t) ==
  /\ running = "none"
  /\ scan[t].pc = "await"
  /\ scan' = [scan EXCEPT ![t].current_id = @ + 1, ![t].delayed = TRUE, ![t].pc = "scan"]
  /\ running' = t
  /\ UNCHANGED <<REQUEST_DELAY, procs, variant, vacancies, companies, pv, ret, parsing_active>>

\* The scan loop of parse_vacancies_button ends
EndManualScan ==
  /\ running = "manual"
  /\ scan["manual"].pc = "scan"
  /\ ~ScanGoesOn("manual")
  /\ scan' = [scan EXCEPT !["manual"].pc = "done"]
  /\ running' = "none"
  /\ UNCHANGED <<REQUEST_DELAY, procs, variant, vacancies, companies, pv, ret, parsing_active>>

\* The scan loop of start_auto_parsing ends: with parsing active the loop
\* starts its wait, otherwise "while self.parsing_active" ends the coroutine
EndAutoCycle(t) ==
  /\ running = t
  /\ scan[t].pc = "scan"
  /\ ~ScanGoesOn(t)
  /\ scan' = [scan EXCEPT ![t].pc = IF parsing_active THEN "wait" ELSE "done",
                          ![t].stopped = ~parsing_active]
  /\ running' = "none"
  /\ UNCHANGED <<REQUEST_DELAY, procs, variant, vacancies, companies, pv, ret, parsing_active>>

\* One asyncio.sleep(1) of the wait is over: the wait goes on, or it ends (all
\* seconds waited, or parsing stopped) and the next cycle starts or the
\* coroutine ends
WaitTick(t) ==
  /\ running = "none"
  /\ scan[t].pc = "wait"
  /\ IF scan[t].ticks + 1 < WaitTicks /\ parsing_active
     THEN /\ scan' = [scan EXCEPT ![t].ticks = @ + 1]
          /\ running' = "none"
     ELSE IF parsing_active
     THEN /\ \E dbError \in LastIdErrors(vacancies) :
               scan' = [scan EXCEPT ![t] = BeginCycle(@, vacancies, dbError)]
          /\ running' = t
     ELSE /\ scan' = [scan EXCEPT ![t].pc = "done"]
          /\ running' = "none"
  /\ UNCHANGED <<REQUEST_DELAY, procs, variant, vacancies, companies, pv, ret, parsing_active>>

InitScan == Init /\ variant = "VP"

NextScan ==
  \/ StartAutoParsing
  \/ StopAutoParsing
  \/ ParseVacanciesButton
  \/ \E t \in Tasks : ScanIteration(t)
  \/ \E t \in Tasks : ResumeScan(t)
  \/ EndManualScan
  \/ EndAutoCycle("auto")
  \/ WaitTick("auto")

SpecScan == InitScan /\ [][NextScan]_vars

-----------------------------------------------------------------------------
(* Properties of the scan loops (SpecScan) *)

RECURSIVE TrailingMisses(_)
\* The number of consecutive false results at the end of a cycle's results
TrailingMisses(results) ==
  IF results = << >> \/ results[Len(results)] THEN 0
  ELSE 1 + TrailingMisses(SubSeq(results, 1, Len(results) - 1))

\* The cycle of coroutine t has ended
CycleOver(t) == scan[t].pc \in {"wait", "done"} /\ scan[t].start /= 0

\* No call was made after 5 consecutive calls had returned false
NoCallAfterFiveMisses(results) ==
  \A k \in 1..(Len(results) - 1) : TrailingMisses(SubSeq(results, 1, k)) < 5

\* With no success at all the cycle handed exactly 5 ids, the 5 after the last known id
FiveIdsWhenNothingFound(t) ==
  (CycleOver(t) /\ scan[t].found = 0) =>
    /\ scan[t].results = <<FALSE, FALSE, FALSE, FALSE, FALSE>>
    /\ scan[t].current_id = scan[t].start + 5

\* C3 as stated: a scan cycle (of start_auto_parsing or of
\* parse_vacancies_button) stops exactly when 5 consecutive process_vacancy
\* calls have returned false, successes resetting the count; when nothing is
\* found it hands exactly 5 ids and terminates.
C3_StopsExactlyAtFiveMisses ==
  \A t \in Tasks :
    /\ CycleOver(t) => TrailingMisses(scan[t].results) = 5
    /\ NoCallAfterFiveMisses(scan[t].results)
    /\ FiveIdsWhenNothingFound(t)

\* C3 amended: a scan cycle ends when 5 consecutive process_vacancy calls have
\* returned false or, for a cycle of start_auto_parsing, when its loop test
\* finds parsing stopped; it never makes a call after 5 consecutive misses, and
\* a cycle that found nothing handed exactly 5 ids.
C3_StopsAtFiveMissesOrWhenStopped ==
  \A t \in Tasks :
    /\ CycleOver(t) =>
         \/ TrailingMisses(scan[t].results) = 5
         \/ t \in AutoLoops /\ scan[t].stopped
    /\ (CycleOver(t) /\ t = "manual") => TrailingMisses(scan[t].results) = 5
    /\ NoCallAfterFiveMisses(scan[t].results)
    /\ FiveIdsWhenNothingFound(t)

\* A cycle that ended at 5 misses after a success had reset the counter, and
\* a cycle that found nothing and ended after exactly 5 ids
C3_Witness ==
  /\ \E t \in Tasks :
       /\ CycleOver(t)
       /\ scan[t].found > 0
       /\ \E k \in 2..Len(scan[t].results) :
            scan[t].results[k] /\ ~scan[t].results[k - 1]
       /\ TrailingMisses(scan[t].results) = 5
  /\ \E t \in Tasks :
       CycleOver(t) /\ scan[t].found = 0 /\ Len(scan[t].results) = 5

\* A step in which loop t starts a scan cycle
CycleBegins(t) == scan[t].pc \in {"idle", "done", "wait"} /\ scan'[t].pc = "scan"

\* Loop t is about to hand current_id to process_vacancy
AboutToHand(t) == scan[t].pc = "scan" /\ ScanGoesOn(t)

\* C18 as stated: across successive cycles of start_auto_parsing, an id that
\* the previous cycle processed with a failure and moved past is not handed to
\* process_vacancy again (get_last_vacancy_id meeting no store error).
C18_FailedIdsNeverRevisited ==
  \A t \in AutoLoops :
    (AboutToHand(t) /\ ~scan[t].lastError) => scan[t].current_id > scan[t].passedUpTo

\* C18 amended: each cycle of start_auto_parsing starts with a
\* consecutive-failure counter of 0 at get_last_vacancy_id() + 1, that is one
\* above the largest stored id, or at 313621 when nothing is stored or the
\* query meets a store error; so the only failed ids of the previous cycle it
\* never hands again are those below an id that is stored by then, and that
\* only when the query met no error.
C18_CyclesResumeAfterLastStored ==
  [][\A t \in AutoLoops :
       CycleBegins(t) =>
         /\ scan'[t].not_found_count = 0
         /\ scan'[t].found = 0
         /\ scan'[t].current_id =
              (IF scan'[t].lastError THEN SEED_ID
               ELSE get_last_vacancy_id(vacancies, FALSE)) + 1
         /\ \A i \in FailedIds(scan[t]) :
              (~scan'[t].lastError /\ \E j \in DOMAIN vacancies : j > i)
                => scan'[t].current_id > i]_vars

\* A later cycle has started above an id its previous cycle had failed (a
\* larger id was stored in between), and a later cycle is about to hand an id
\* its previous cycle had failed
C18_Witness ==
  \E t \in AutoLoops :
    /\ AboutToHand(t)
    /\ ~scan[t].lastError
    /\ scan[t].passedUpTo > 0
    /\ scan[t].current_id = scan[t].start
    /\ scan[t].start > scan[t].passedUpTo

\* C19 as stated: in the scan loops of the bot, between the processing of one
\* id and the processing of the next there has been one inter-request delay,
\* after a success and after a failure alike.
C19_DelayBetweenIds ==
  \A t \in Tasks :
    (AboutToHand(t) /\ scan[t].results /= << >>) => scan[t].delayed

\* The ids a cycle processed with success, each handed to post_vacancy
PostedIds(f) == {f.start + k - 1 : k \in {i \in 1..Len(f.results) : f.results[i]}}

\* C25: no vacancy id is posted to the channel more than once by the scan
\* loops: no id is posted both by a cycle of start_auto_parsing and by a scan
\* of parse_vacancies_button (get_last_vacancy_id meeting no store error).
C25_NoIdPostedTwice ==
  (\A t \in Tasks : ~scan[t].lastError) =>
    PostedIds(scan["auto"]) \cap PostedIds(scan["manual"]) = {}

-----------------------------------------------------------------------------
(* Stopping and starting auto parsing again (SpecRestart): toggle_parsing     *)
(* creates a start_auto_parsing task each time parsing is not active.         *)

NextRestart ==
  \/ StartAutoParsing
  \/ RestartAutoParsing
  \/ StopAutoParsing
  \/ \E t \in AutoLoops : ScanIteration(t)
  \/ \E t \in AutoLoops : ResumeScan(t)
  \/ \E t \in AutoLoops : EndAutoCycle(t)
  \/ \E t \in AutoLoops : WaitTick(t)

SpecRestart == InitScan /\ [][NextRestart]_vars

\* C12: while a loop of start_auto_parsing is in its wait between two cycles,
\* a stop request ends the wait at the next one-second tick and the loop
\* terminates without starting another scan cycle.
C12_StopEndsTheWait ==
  [][\A t \in AutoLoops :
       (scan[t].pc = "wait" /\ scan[t].stopRequested /\ scan'[t] /= scan[t])
         => scan'[t].pc = "done"]_vars

\* What holds of the wait: a tick that finds parsing_active false ends the loop
C12_TickEndsTheWaitWhenInactive ==
  [][\A t \in AutoLoops :
       (scan[t].pc = "wait" /\ ~parsing_active /\ scan'[t] /= scan[t] /\ ~parsing_active')
         => scan'[t].pc = "done"]_vars

\* Two loops of start_auto_parsing are alive at once
C12_TwoLoopsAlive ==
  \A t \in AutoLoops : scan[t].pc \in {"scan", "await", "wait"}

\* The loops of start_auto_parsing that have started and not ended
AliveAutoLoops == {t \in AutoLoops : scan[t].pc \in {"scan", "await", "wait"}}

\* C24: at most one loop of start_auto_parsing is alive at any time, for every
\* sequence of toggle, start and stop operations.
C24_AtMostOneAutoLoop == Cardinality(AliveAutoLoops) <= 1

-----------------------------------------------------------------------------
(* The bounded scan (SpecRun): VacancyParser.run of Vacancy_Parser.py and of  *)
(* Crewing_Bot_2.py                                                           *)

\* The arguments run is called with; 0 stands for None (and is taken for it:
\* "start_id if start_id else ...")
RunStartIds == {0, SEED_ID + 1}
RunEndIds == {0, SEED_ID + 3}

\* current_id = start_id if start_id else self.get_last_vacancy_id()
\* end_id = end_id if end_id else current_id + 100
\* for vacancy_id in range(current_id + 1, end_id + 1)
run_frame(start_id, end_id, vs, dbError) ==
  LET current_id == IF start_id /= 0 THEN start_id ELSE get_last_vacancy_id(vs, dbError)
  IN  [ScanIdle EXCEPT !.pc = "scan", !.start_id = start_id, !.end_id = end_id,
                       !.start = current_id + 1, !.current_id = current_id + 1,
                       !.end = IF end_id /= 0 THEN end_id ELSE current_id + RUN_SPAN,
                       !.lastError = dbError]

\* run(start_id, end_id) up to its loop, in a process started when no run is
\* under way
RunStart ==
  /\ scan["run"].pc \in {"idle", "done", "raised"}
  /\ \E start_id \in RunStartIds, end_id \in RunEndIds, dbError \in LastIdErrors(vacancies) :
       scan' = [scan EXCEPT !["run"] = run_frame(start_id, end_id, vacancies, dbError)]
  /\ UNCHANGED <<REQUEST_DELAY, procs, variant, vacancies, companies, pv, ret,
                 parsing_active, running>>

\* One iteration of the loop of run: process_vacancy(vacancy_id); sleep(REQUEST_DELAY)
RunIteration ==
  /\ scan["run"].pc = "scan"
  /\ scan["run"].current_id <= scan["run"].end
  /\ \E script \in ScriptsOf(scan["run"].current_id) :
     \E a \in process_vacancy_call(variant, vacancies, companies, scan["run"].current_id,
                                   0, script, NoHit) :
       /\ vacancies' = a.vacancies
       /\ companies' = a.companies
       /\ scan' = [scan EXCEPT !["run"].handed = Append(@, scan["run"].current_id),
                               !["run"].results = Append(@, a.ok),
                               !["run"].found = IF a.ok THEN @ + 1 ELSE @,
                               !["run"].delayed = TRUE,
                               !["run"].current_id = @ + 1]
  /\ UNCHANGED <<REQUEST_DELAY, procs, variant, pv, ret, parsing_active, running>>

\* The range is exhausted: the try block is left at its end
RunEnd ==
  /\ scan["run"].pc = "scan"
  /\ scan["run"].current_id > scan["run"].end
  /\ scan' = [scan EXCEPT !["run"].pc = "finally", !["run"].exit = "completed"]
  /\ UNCHANGED <<REQUEST_DELAY, procs, variant, vacancies, companies, pv, ret,
                 parsing_active, running>>

\* The try block is left by KeyboardInterrupt or by another exception, and the
\* except clause logs it. Between two calls either may arrive. Within
\* process_vacancy only the interrupt passes (the call catches Exception
\* itself), here after the company of the vacancy is committed and before the
\* vacancy is written.
RunRaise ==
  /\ scan["run"].pc = "scan"
  /\ \/ /\ \E kind \in {"interrupted", "exception"} :
              scan' = [scan EXCEPT !["run"].pc = "finally", !["run"].exit = kind]
        /\ UNCHANGED <<vacancies, companies>>
     \/ /\ scan["run"].current_id <= scan["run"].end
        /\ \E script \in ScriptsOf(scan["run"].current_id) :
           \E a \in process_vacancy_call(variant, vacancies, companies,
                                         scan["run"].current_id, 0, script, NoHit) :
             companies' = a.companies
        /\ scan' = [scan EXCEPT !["run"].handed = Append(@, scan["run"].current_id),
                                !["run"].pc = "finally",
                                !["run"].exit = "interrupted"]
        /\ UNCHANGED vacancies
  /\ UNCHANGED <<REQUEST_DELAY, procs, variant, pv, ret, parsing_active, running>>

\* finally: self.conn.close()
RunCloseConn ==
  /\ scan["run"].pc = "finally"
  /\ scan' = [scan EXCEPT !["run"].pc = "closing", !["run"].closed = @ \cup {"conn"}]
  /\ UNCHANGED <<REQUEST_DELAY, procs, variant, vacancies, companies, pv, ret,
                 parsing_active, running>>

\* A finally block that returns after closing the connection only
RunReturnsWithSessionOpen ==
  /\ scan["run"].pc = "closing"
  /\ scan' = [scan EXCEPT !["run"].pc = "done"]
  /\ UNCHANGED <<REQUEST_DELAY, procs, variant, vacancies, companies, pv, ret,
                 parsing_active, running>>

\* finally: self.session.close(), and run returns
RunCloseSession ==
  /\ scan["run"].pc = "closing"
  /\ scan' = [scan EXCEPT !["run"].pc = "done", !["run"].closed = @ \cup {"session"}]
  /\ UNCHANGED <<REQUEST_DELAY, procs, variant, vacancies, companies, pv, ret,
                 parsing_active, running>>

\* KeyboardInterrupt within the finally block: run does not return, the
\* interrupt leaves it with what is closed so far
RunInterruptFinally ==
  /\ scan["run"].pc \in {"finally", "closing"}
  /\ scan' = [scan EXCEPT !["run"].pc = "raised"]
  /\ UNCHANGED <<REQUEST_DELAY, procs, variant, vacancies, companies, pv, ret,
                 parsing_active, running>>

NextRun ==
  \/ RunStart
  \/ RunIteration
  \/ RunEnd
  \/ RunRaise
  \/ RunCloseConn
  \/ RunCloseSession
  \/ RunInterruptFinally

SpecRun == Init /\ [][NextRun]_vars

\* The ids from, from + 1, ..., to in increasing order
IdsFromTo(from, to) == [i \in 1..(IF to >= from THEN to - from + 1 ELSE 0) |-> from + i - 1]

\* The start of the run as the arguments state it: start_id, by default the id
\* after the last stored one
StatedStart(f) == IF f.start_id /= 0 THEN f.start_id ELSE f.start

\* C20: run(start, end) has handed to process_vacancy exactly the ids start,
\* start + 1, ..., end, in increasing order and each once, where start
\* defaults to get_last_vacancy_id() + 1 and end defaults to start + 100.
C20_RunHandsStartToEnd ==
  (scan["run"].pc = "done" /\ scan["run"].exit = "completed") =>
    scan["run"].handed =
      IdsFromTo(StatedStart(scan["run"]),
                IF scan["run"].end_id /= 0 THEN scan["run"].end_id
                ELSE StatedStart(scan["run"]) + RUN_SPAN)

\* What run does hand: the ids after start_id (after the last stored id by
\* default) up to end_id, by default the 100 ids after start_id
C20_RunHandsAfterStartToEnd ==
  (scan["run"].pc = "done" /\ scan["run"].exit = "completed") =>
    LET f == scan["run"]
        current_id == IF f.start_id /= 0 THEN f.start_id ELSE f.start - 1
    IN  f.handed = IdsFromTo(current_id + 1,
                             IF f.end_id /= 0 THEN f.end_id ELSE current_id + RUN_SPAN)

\* In run a delay follows every id
C19_RunDelaysAfterEveryId ==
  (scan["run"].pc = "scan" /\ scan["run"].results /= << >>) => scan["run"].delayed

\* C22: however run ends (the range exhausted, an interrupt during any step,
\* an unexpected exception), the connection of the store and the network
\* session are both closed when it returns.
C22_ClosedWhenRunReturns ==
  scan["run"].pc = "done" => scan["run"].closed = {"conn", "session"}

\* run has returned after an interrupt that arrived within process_vacancy
C22_Witness ==
  /\ scan["run"].pc = "done"
  /\ scan["run"].exit = "interrupted"
  /\ Len(scan["run"].handed) > Len(scan["run"].results)
  /\ scan["run"].closed = {"conn", "session"}

-----------------------------------------------------------------------------
(* Two processes on one database file (SpecRace): each holds a VacancyParser  *)
(* with a connection of its own; a statement with its commit is one step.     *)

\* The rows the lookups of get_or_create_company return for a name
lookup_company(v, cs, company_name) ==
  LET normalized_name == NormalizedName(company_name)
      exact == ExactMatches(cs, normalized_name)
  IN  IF exact /= {} \/ v = "VP" THEN exact ELSE LikeMatches(cs, normalized_name)

\* The INSERT of get_or_create_company after both lookups have missed
insert_company(v, cs, company_name, site) ==
  LET company_data == IF v = "VP" THEN NO_DATA ELSE parse_company_details(company_name, site)
      row == IF DOMAIN company_data = {}
             THEN CompanyRow(Capitalize(company_name), << >>)
             ELSE CompanyRow(Capitalize(company_data["name"]), company_data)
  IN  IF UniqueViolation(cs, row) THEN Failed(cs)
      ELSE Resolved(lastrowid(cs), Append(cs, row))

\* The INSERT of save_vacancy for the record data with the company resolved
\* to company_id
write_vacancy(v, vs, cs, data, company_id) ==
  IF v = "VP"
  THEN VP_write_vacancy(vs, data, Resolved(company_id, cs), NoFaults).vacancies
  ELSE InsertOrReplace(vs, data["id"], CB2_columns \cup {"company_id"},
                       RowValues(data, company_id))

\* The names the two processes resolve and the records they save (two
\* different pages read under one id)
RaceNames == {NameAb, SpacedName}

RaceDocs == {DocGlobalMarine, DocNoAgency}

\* Process p calls get_or_create_company(company_name)
RaceResolve(p, company_name, site) ==
  /\ procs[p].pc = "idle"
  /\ procs' = [procs EXCEPT ![p] = [ProcIdle EXCEPT !.pc = "lookup", !.op = "resolve",
                                                    !.company_name = company_name,
                                                    !.site = site]]
  /\ UNCHANGED <<REQUEST_DELAY, variant, vacancies, companies, pv, ret, scan,
                 parsing_active, running>>

\* Process p calls save_vacancy(data): up to the call of get_or_create_company,
\* which Vacancy_Parser.py makes only for a record with an agency
RaceSave(p, d, site) ==
  /\ procs[p].pc = "idle"
  /\ LET data == fetch_vacancy(variant, SEED_ID + 1, PageAnswer("doc", d))
     IN  procs' = [procs EXCEPT ![p] = [ProcIdle EXCEPT !.pc = "lookup", !.op = "save",
                                                       !.data = data,
                                                       !.company_name = Get(data, "agency"),
                                                       !.site = site]]
  /\ UNCHANGED <<REQUEST_DELAY, variant, vacancies, companies, pv, ret, scan,
                 parsing_active, running>>

\* The SELECTs of get_or_create_company
RaceLookup(p) ==
  /\ procs[p].pc = "lookup"
  /\ LET f == procs[p]
         result == lookup_company(variant, companies, f.company_name)
     IN  IF ~Truthy(f.company_name)
         THEN procs' = [procs EXCEPT ![p].pc = "resolved"]
         ELSE IF result = {}
         THEN procs' = [procs EXCEPT ![p].pc = "missed", ![p].missed = TRUE]
         ELSE \E i \in result :
                procs' = [procs EXCEPT ![p].pc = "resolved", ![p].company_id = i]
  /\ UNCHANGED <<REQUEST_DELAY, variant, vacancies, companies, pv, ret, scan,
                 parsing_active, running>>

\* The INSERT of get_or_create_company and its commit; sqlite3.IntegrityError
\* is caught and None returned
RaceInsert(p) ==
  /\ procs[p].pc = "missed"
  /\ LET f == procs[p]
         r == insert_company(variant, companies, f.company_name, f.site)
     IN  /\ companies' = r.companies
         /\ procs' = [procs EXCEPT ![p].pc = "resolved", ![p].company_id = r.id,
                                   ![p].err = r.err]
  /\ UNCHANGED <<REQUEST_DELAY, variant, vacancies, pv, ret, scan, parsing_active, running>>

\* save_vacancy of Vacancy_Parser.py: update_company_info(company_id, website=website)
NeedsUpdate(f) ==
  /\ variant = "VP"
  /\ f.company_id /= NO_COMPANY
  /\ Truthy(Get(f.data, "website"))

RaceUpdateCompany(p) ==
  /\ procs[p].pc = "resolved"
  /\ procs[p].op = "save"
  /\ NeedsUpdate(procs[p])
  /\ companies' = update_company_info(companies, procs[p].company_id,
                                      NormalizedWebsite(Get(procs[p].data, "website")), FALSE)
  /\ procs' = [procs EXCEPT ![p].pc = "write"]
  /\ UNCHANGED <<REQUEST_DELAY, variant, vacancies, pv, ret, scan, parsing_active, running>>

\* save_vacancy: the INSERT into vacancies and its commit; return True
RaceWrite(p) ==
  /\ procs[p].op = "save"
  /\ \/ procs[p].pc = "write"
     \/ procs[p].pc = "resolved" /\ ~NeedsUpdate(procs[p])
  /\ vacancies' = write_vacancy(variant, vacancies, companies, procs[p].data,
                                procs[p].company_id)
  /\ procs' = [procs EXCEPT ![p].pc = "done"]
  /\ UNCHANGED <<REQUEST_DELAY, variant, companies, pv, ret, scan, parsing_active, running>>

NextRace ==
  \/ \E p \in Processes, company_name \in RaceNames, site \in SiteAnswersOf(variant) :
       RaceResolve(p, company_name, site)
  \/ \E p \in Processes, d \in RaceDocs, site \in SiteAnswersOf(variant) : RaceSave(p, d, site)
  \/ \E p \in Processes : RaceLookup(p)
  \/ \E p \in Processes : RaceInsert(p)
  \/ \E p \in Processes : RaceUpdateCompany(p)
  \/ \E p \in Processes : RaceWrite(p)

SpecRace == Init /\ [][NextRace]_vars

\* Process p has returned from its call
Returned(p) ==
  \/ procs[p].op = "resolve" /\ procs[p].pc = "resolved"
  \/ procs[p].op = "save" /\ procs[p].pc = "done"

\* C14: when two resolutions of the same name, stored by neither lookup's
\* time, have both missed the lookup before either inserted, then after both
\* have returned exactly one company row holds that name and both callers have
\* a company id (the second insert was rejected and its caller recovered).
C14_RaceLeavesOneRowAndTwoIds ==
  (/\ \A p \in Processes : procs[p].op = "resolve" /\ Returned(p) /\ procs[p].missed
   /\ NormalizedName(procs[1].company_name) = NormalizedName(procs[2].company_name))
    => /\ Cardinality(ExactMatches(companies, NormalizedName(procs[1].company_name))) = 1
       /\ \A p \in Processes : procs[p].company_id /= NO_COMPANY

\* The row a save of the record alone stores in an empty table
RowOfRecord(v, data, company_id) ==
  write_vacancy(v, << >>, << >>, data, company_id)[data["id"]]

\* C15: when two processes have run save_vacancy for the same id with
\* different records, in any interleaving, the table holds one row of that id
\* and it equals one of the two records in full, never a mix of both.
C15_RowIsOneRecordInFull ==
  (/\ \A p \in Processes : procs[p].op = "save" /\ Returned(p)
   /\ procs[1].data /= procs[2].data)
    => /\ (SEED_ID + 1) \in DOMAIN vacancies
       /\ \E p \in Processes :
            vacancies[SEED_ID + 1] =
              RowOfRecord(variant, procs[p].data, procs[p].company_id)

-----------------------------------------------------------------------------
(* All calls that write the store, in any order (SpecCalls): save_vacancy,    *)
(* get_last_vacancy_id, process_vacancy, get_or_create_company and the        *)
(* agency listing                                                             *)

\* The records, page answers and names of the calls
CallSaveInputs == {<<SEED_ID + 1, DocNoAgency>>, <<SEED_ID + 2, DocGlobalMarine>>}

CallProcessInputs ==
  {<<SEED_ID + 1, PageAnswer("doc", DocSpaced)>>,
   <<SEED_ID + 1, PageAnswer("error", << >>)>>}

CallNames == {SpacedName}

NextCalls ==
  \/ \E in \in CallSaveInputs, site \in SiteAnswersOf(variant) :
        SaveVacancy(in[1], in[2], site)
  \/ \E in \in CallProcessInputs, site \in SiteAnswersOf(variant) :
        ProcessVacancy(in[1], in[2], site)
  \/ \E in \in CallProcessInputs, site \in SiteAnswersOf(variant) :
        /\ in[1] = pv.id
        /\ ProcessVacancyRetry(in[2], site)
  \/ \E name \in CallNames, dbError \in BOOLEAN :
       \E site \in ResolveSitesOf(variant, companies, name) :
         /\ Len(companies) < MaxCompanies
         /\ ResolveCompany(name, site, dbError)

SpecCalls == Init /\ [][NextCalls]_vars

\* C30: in every reachable state of the store each vacancy's company_id is
\* null or the id of a company row that exists.
C30_CompanyIdRefersToARow ==
  \A id \in DOMAIN vacancies :
    \/ vacancies[id].company_id = NO_COMPANY
    \/ vacancies[id].company_id \in 1..Len(companies)

\* A vacancy refers to a company that a call of the resolver created, and a
\* vacancy saved without agency refers to none
C30_Witness ==
  /\ \E id \in DOMAIN vacancies : vacancies[id].company_id \in 2..Len(companies)
  /\ \E id \in DOMAIN vacancies : vacancies[id].company_id = NO_COMPANY

-----------------------------------------------------------------------------
(* The enrichment of the companies (SpecEnrich): parse_agency_2.py            *)
(* scrape_company_details, run as a batch again and again over the table the  *)
(* listing and the resolver fill                                              *)

\* What extract_detail finds on the detail page of a company at the time of a
\* visit; a label the page does not show gives None
DetailPages ==
  {[phones |-> <<"1">>, email |-> <<"e">>, website |-> <<"w">>, address |-> <<"a">>],
   [phones |-> NULL, email |-> <<"e">>, website |-> <<"w">>, address |-> <<"a">>],
   [phones |-> NULL, email |-> NULL, website |-> NULL, address |-> NULL]}

\* SELECT id, url FROM companies WHERE url IS NOT NULL AND phones IS NULL
select_companies(cs) ==
  SelectSeq([i \in 1..Len(cs) |-> i], LAMBDA i : cs[i].url /= NULL /\ cs[i].phones = NULL)

\* UPDATE companies SET phones = ?, email = ?, website = ?, address = ? WHERE id = ?
update_company(cs, company_id, data, dbError) ==
  IF dbError THEN cs
  ELSE [cs EXCEPT ![company_id] = [@ EXCEPT !.phones = data.phones, !.email = data.email,
                                            !.website = data.website,
                                            !.address = data.address]]

\* A loop that ends at the first company that fails
stop_at_failure(f, company_id, data, ok) ==
  [f EXCEPT !.handed = Append(@, company_id), !.pages = Append(@, data),
            !.results = Append(@, ok),
            !.current_id = IF ok THEN @ + 1 ELSE Len(f.selected) + 1]

\* The loop after the visit of a company: except Exception ... continue, and
\* update_company logs its own sqlite3.Error
after_visit(f, company_id, data, ok) ==
  [f EXCEPT !.handed = Append(@, company_id), !.pages = Append(@, data),
            !.results = Append(@, ok), !.current_id = @ + 1]

\* scrape_company_details up to its loop; with nothing selected it returns
ScrapeStart ==
  /\ scan["enrich"].pc \in {"idle", "done"}
  /\ LET rows == select_companies(companies)
     IN  scan' = [scan EXCEPT !["enrich"] =
                    [ScanIdle EXCEPT !.pc = IF rows = << >> THEN "done" ELSE "scan",
                                     !.selected = rows, !.current_id = 1]]
  /\ UNCHANGED <<REQUEST_DELAY, procs, variant, vacancies, companies, pv, ret,
                 parsing_active, running>>

\* One iteration of the loop: the page is fetched and read (or that raises),
\* and update_company writes what was read (or the store refuses)
ScrapeVisit ==
  /\ scan["enrich"].pc = "scan"
  /\ scan["enrich"].current_id <= Len(scan["enrich"].selected)
  /\ LET f == scan["enrich"]
         company_id == f.selected[f.current_id]
     IN  \/ /\ scan' = [scan EXCEPT !["enrich"] = after_visit(f, company_id, NO_DATA, FALSE)]
            /\ UNCHANGED companies
         \/ \E data \in DetailPages, dbError \in BOOLEAN :
              /\ companies' = update_company(companies, company_id, data, dbError)
              /\ scan' = [scan EXCEPT !["enrich"] = after_visit(f, company_id, data, ~dbError)]
  /\ UNCHANGED <<REQUEST_DELAY, procs, variant, vacancies, pv, ret, parsing_active, running>>

\* The rows fetched are exhausted
ScrapeEnd ==
  /\ scan["enrich"].pc = "scan"
  /\ scan["enrich"].current_id > Len(scan["enrich"].selected)
  /\ scan' = [scan EXCEPT !["enrich"].pc = "done"]
  /\ UNCHANGED <<REQUEST_DELAY, procs, variant, vacancies, companies, pv, ret,
                 parsing_active, running>>

NextEnrich ==
  \/ \E company \in ListedCompanies : SaveCompanies(company)
  \/ ResolveCompany(NameAb, NoHit, FALSE)
  \/ ScrapeStart
  \/ ScrapeVisit
  \/ ScrapeEnd

SpecEnrich == Init /\ [][NextEnrich]_vars

\* C23: the batch visits every company that had a detail URL and no phone
\* data when the batch started, each once; a failure on one company does not
\* stop the batch: at its end every selected company has been visited, and
\* every company whose visit did not fail holds what its page gave.
C23_EverySelectedCompanyVisited ==
  [][/\ (scan["enrich"].pc \in {"idle", "done"} /\ scan'["enrich"] /= scan["enrich"])
          => {scan'["enrich"].selected[k] : k \in 1..Len(scan'["enrich"].selected)}
               = {i \in 1..Len(companies) :
                    companies[i].url /= NULL /\ companies[i].phones = NULL}
     /\ (scan["enrich"].pc = "scan" /\ scan'["enrich"].pc = "done")
          => LET f == scan'["enrich"]
             IN  /\ f.handed = f.selected
                 /\ \A k \in 1..Len(f.handed) :
                      f.results[k] =>
                        \A c \in {"phones", "email", "website", "address"} :
                          companies'[f.handed[k]][c] = f.pages[k][c]]_vars

\* A batch over two companies has ended: the visit of the first failed, the
\* second was visited after it and holds the phone number of its page
C23_Witness ==
  /\ scan["enrich"].pc = "done"
  /\ Len(scan["enrich"].selected) = 2
  /\ scan["enrich"].handed = scan["enrich"].selected
  /\ ~scan["enrich"].results[1]
  /\ scan["enrich"].results[2]
  /\ companies[scan["enrich"].selected[2]].phones = <<"1">>

\* C29: no step of the enrichment replaces a stored non-null email, website or
\* address of a company by null.
C29_EnrichmentKeepsStoredContact ==
  [][\A i \in 1..Len(companies) :
       \A c \in {"email", "website", "address"} :
         companies[i][c] /= NULL => companies'[i][c] /= NULL]_vars

====
